---- MODULE Spec2Model ----
(***************************************************************************)
(* Model of app.py: the field-inference and normalisation pipeline of the  *)
(* marketplace analysis dashboard.                                         *)
(*                                                                         *)
(* Text is modelled character by character: a string is a sequence of      *)
(* one-character strings.  A float is modelled as an exact decimal         *)
(* (sign, mantissa, number of decimals) or one of nan / +inf / -inf; the   *)
(* binary rounding of IEEE doubles is not modelled.  A character outside   *)
(* ASCII is written as its code point: "u2013" is the en dash.            *)
(***************************************************************************)
EXTENDS Integers, Sequences, FiniteSets, TLC

VARIABLES
    cell,       \* SpecNumeric: the cell value handed to clean_numeric
    out,        \* SpecNumeric: clean_numeric(cell), or pending
    again,      \* SpecNumeric: clean_numeric(out) (the float re-read), or pending
    columns,    \* df.columns of the table at hand
    field,      \* SpecFindCol: the semantic field looked up
    selected,   \* SpecFindCol: find_col(columns, keywords of field), or pending
    rows,       \* Spec: the rows of the table, each a sequence of cells
    col_map,    \* Spec: render_product_dashboard's col_map
    data,       \* Spec: the derived columns of `data`, one record per row
    overrides,  \* Spec: number of selectbox changes made so far
    warnings,   \* Spec: the st.warning / st.error messages shown
    kpi,        \* Spec, SpecBrand: the figures computed from `data` for the cards
    title,      \* SpecRow: the Title text of one row
    derived,    \* SpecRow: the derived columns of that row, or pending
    sheets,     \* SpecBatch: the headers of the sheets read from the upload
    log,        \* SpecBatch: what the loop over the sheets has done so far
    pc          \* position in the script

vars ==
    <<cell, out, again, columns, field, selected, rows, col_map, data, overrides, warnings,
      kpi, title, derived, sheets, log, pc>>
numVars == <<cell, out, again>>
colVars == <<field, selected>>
prodVars == <<rows, col_map, data, overrides, warnings>>
rowVars == <<title, derived>>
batchVars == <<sheets, log>>

\* a float not computed yet, and a column name not computed yet
PendingNum == [k |-> "pending"]
Pending == <<"pending">>

\* Python's None where a column name is expected
None == <<"None">>

\* ------------------------------------------------------------------------
\* Bounds of the model
\* ------------------------------------------------------------------------
MaxTokens == 3
MaxCols == 2
MaxRows == 2
MaxOverrides == 1
MaxWords == 2
MaxBrands == 6
MaxSheets == 3

\* ------------------------------------------------------------------------
\* Characters and strings
\* ------------------------------------------------------------------------
Digits == <<"0", "1", "2", "3", "4", "5", "6", "7", "8", "9">>

IsDigit(c) == \E i \in 1..10 : Digits[i] = c

DigitVal(c) == (CHOOSE i \in 1..10 : Digits[i] = c) - 1

Upper ==
    <<"A", "B", "C", "D", "E", "F", "G", "H", "I", "J", "K", "L", "M", "N", "O", "P", "Q", "R", "S", "T", "U", "V", "W", "X", "Y", "Z">>

LowerOf ==
    <<"a", "b", "c", "d", "e", "f", "g", "h", "i", "j", "k", "l", "m", "n", "o", "p", "q", "r", "s", "t", "u", "v", "w", "x", "y", "z">>

\* str.lower(), one character
LowerChar(c) ==
    IF \E i \in 1..Len(Upper) : Upper[i] = c
    THEN LowerOf[CHOOSE i \in 1..Len(Upper) : Upper[i] = c]
    ELSE c

\* str.lower()
Lower(s) == [i \in 1..Len(s) |-> LowerChar(s[i])]

\* str.replace(c, "") for every c in cs
RemoveChars(s, cs) == SelectSeq(s, LAMBDA c : c \notin cs)

RECURSIVE LStrip(_)
LStrip(s) == IF s # <<>> /\ Head(s) = " " THEN LStrip(Tail(s)) ELSE s

RECURSIVE RStrip(_)
RStrip(s) ==
    IF s # <<>> /\ s[Len(s)] = " " THEN RStrip(SubSeq(s, 1, Len(s) - 1)) ELSE s

\* str.strip()
Strip(s) == RStrip(LStrip(s))

\* `sub in s`
Contains(s, sub) ==
    \E i \in 0..(Len(s) - Len(sub)) : SubSeq(s, i + 1, i + Len(sub)) = sub

RECURSIVE Concat(_)
Concat(ss) == IF ss = <<>> THEN <<>> ELSE Head(ss) \o Concat(Tail(ss))

\* ------------------------------------------------------------------------
\* Floats
\* ------------------------------------------------------------------------
NaN == [k |-> "nan"]
Inf(neg) == [k |-> "inf", neg |-> neg]

RECURSIVE Norm(_, _, _)
\* the decimal (-1)^neg * m / 10^e, without trailing zero decimals
Norm(neg, m, e) ==
    IF e > 0 /\ m % 10 = 0 THEN Norm(neg, m \div 10, e - 1)
    ELSE [k |-> "fin", neg |-> neg, m |-> m, e |-> e]

IsNaN(v) == v.k = "nan"
IsFinite(v) == v.k = "fin"

RECURSIVE Pow10(_)
Pow10(n) == IF n = 0 THEN 1 ELSE 10 * Pow10(n - 1)

\* Python's ==  on floats (nan equals nothing, -0.0 == 0.0)
NumEq(a, b) ==
    CASE a.k = "nan" \/ b.k = "nan" -> FALSE
      [] a.k = "inf" \/ b.k = "inf" -> a = b
      [] OTHER -> a.m = b.m /\ a.e = b.e /\ (a.neg = b.neg \/ a.m = 0)

\* x / 100.0
Div100(v) == IF v.k = "fin" THEN Norm(v.neg, v.m, v.e + 2) ELSE v

\* (a + b) / 2.0 for two non-negative finite floats
Mean2(a, b) ==
    LET e == IF a.e > b.e THEN a.e ELSE b.e
        s == a.m * Pow10(e - a.e) + b.m * Pow10(e - b.e)
    IN  Norm(FALSE, s * 5, e + 1)

RECURSIVE DigitsToInt(_)
DigitsToInt(ds) ==
    IF ds = <<>> THEN 0
    ELSE DigitsToInt(SubSeq(ds, 1, Len(ds) - 1)) * 10 + DigitVal(ds[Len(ds)])

AllDigits(s) == \A i \in 1..Len(s) : IsDigit(s[i])

Fail == [k |-> "ValueError"]

\* float(s) on an unsigned decimal literal: digits, digits., .digits, digits.digits
UnsignedFloat(neg, s) ==
    IF \E i \in 1..Len(s) : s[i] = "."
    THEN LET p == CHOOSE i \in 1..Len(s) : s[i] = "."
             ip == SubSeq(s, 1, p - 1)
             fp == SubSeq(s, p + 1, Len(s))
         IN  IF AllDigits(ip) /\ AllDigits(fp) /\ Len(ip) + Len(fp) > 0
             THEN Norm(neg, DigitsToInt(ip \o fp), Len(fp))
             ELSE Fail
    ELSE IF s # <<>> /\ AllDigits(s) THEN Norm(neg, DigitsToInt(s), 0) ELSE Fail

\* float(s): optional sign, then inf / nan (any case) or a decimal literal.
\* Exponents, '+', '_' and "infinity" need characters outside the alphabet.
PyFloat(s) ==
    LET neg == s # <<>> /\ Head(s) = "-"
        body == IF neg THEN Tail(s) ELSE s
    IN  CASE Lower(body) = <<"i", "n", "f">> -> Inf(neg)
          [] Lower(body) = <<"n", "a", "n">> -> NaN
          [] OTHER -> UnsignedFloat(neg, body)

RECURSIVE IntDigits(_)
\* the decimal digits of a natural number
IntDigits(n) ==
    IF n < 10 THEN <<Digits[n + 1]>> ELSE IntDigits(n \div 10) \o <<Digits[(n % 10) + 1]>>

Zeros(n) == [i \in 1..n |-> "0"]

\* str(x) / repr(x) of a float: positional for 1e-4 <= |x| < 1e16, else
\* scientific (mantissas stay below 2^31, so only the small side can occur)
FloatStr(v) ==
    CASE v.k = "nan" -> <<"n", "a", "n">>
      [] v.k = "inf" -> (IF v.neg THEN <<"-">> ELSE <<>>) \o <<"i", "n", "f">>
      [] OTHER ->
         LET sign == IF v.neg THEN <<"-">> ELSE <<>>
             ds == IntDigits(v.m)
             n == Len(ds)
         IN  IF v.e = 0 THEN sign \o ds \o <<".", "0">>
             ELSE IF n > v.e
                  THEN sign \o SubSeq(ds, 1, n - v.e) \o <<".">> \o SubSeq(ds, n - v.e + 1, n)
             ELSE IF v.e - n < 4
                  THEN sign \o <<"0", ".">> \o Zeros(v.e - n) \o ds
             ELSE LET x == v.e - n + 1
                      xs == IF x < 10 THEN <<"0">> \o IntDigits(x) ELSE IntDigits(x)
                  IN  sign \o <<ds[1]>>
                      \o (IF n > 1 THEN <<".">> \o SubSeq(ds, 2, n) ELSE <<>>)
                      \o <<"e", "-">> \o xs

\* ------------------------------------------------------------------------
\* Cells
\* ------------------------------------------------------------------------
Missing == [k |-> "missing"]
StrCell(s) == [k |-> "str", s |-> s]
IntCell(neg, n) == [k |-> "int", neg |-> neg, n |-> n]
FloatCell(v) == [k |-> "float", v |-> v]

\* pd.isna(val): None and float nan
IsNA(val) == val.k = "missing" \/ (val.k = "float" /\ val.v.k = "nan")

\* str(val)
PyStr(val) ==
    CASE val.k = "str" -> val.s
      [] val.k = "int" -> (IF val.neg THEN <<"-">> ELSE <<>>) \o IntDigits(val.n)
      [] val.k = "float" -> FloatStr(val.v)
      [] val.k = "missing" -> <<"n", "a", "n">>

\* ------------------------------------------------------------------------
\* clean_numeric
\* ------------------------------------------------------------------------
RECURSIVE DigitRun(_, _)
\* the end of the run of digits starting at position i (i - 1 if none)
DigitRun(s, i) == IF i <= Len(s) /\ IsDigit(s[i]) THEN DigitRun(s, i + 1) ELSE i - 1

RECURSIVE FindAllFrom(_, _)
FindAllFrom(s, i) ==
    IF i > Len(s) THEN <<>>
    ELSE IF ~IsDigit(s[i]) THEN FindAllFrom(s, i + 1)
    ELSE LET j == DigitRun(s, i)
             k == IF j + 2 <= Len(s) /\ s[j + 1] = "." /\ IsDigit(s[j + 2])
                  THEN DigitRun(s, j + 2) ELSE j
         IN  <<SubSeq(s, i, k)>> \o FindAllFrom(s, k + 1)

\* re.findall(r"\d+(?:\.\d+)?", s)
FindAllNums(s) == FindAllFrom(s, 1)

Currency == {"$", "u00a5", ",", " ", "uffe5"}

NanNull == {<<"n", "a", "n">>, <<"n", "u", "l", "l">>}

PercentMode(s) == \E i \in 1..Len(s) : s[i] = "%"

HasRangeMark(s) == (\E i \in 1..Len(s) : s[i] = "-") \/ Contains(Lower(s), <<"t", "o">>)

\* lines 36-58, on the stripped text
CleanText(s0) ==
    LET s == RemoveChars(s0, Currency)
    IN  IF PercentMode(s)
        THEN LET f == PyFloat(RemoveChars(s, {"%"}))
             IN  IF f = Fail THEN NaN ELSE Div100(f)
        ELSE LET nums == FindAllNums(s)
             IN  IF nums = <<>> THEN NaN
                 ELSE IF Len(nums) >= 2 /\ HasRangeMark(s)
                      THEN Mean2(PyFloat(nums[1]), PyFloat(nums[2]))
                 ELSE PyFloat(nums[1])

clean_numeric(val) ==
    IF IsNA(val) THEN NaN
    ELSE LET s == Strip(PyStr(val))
         IN  IF s = <<>> \/ Lower(s) \in NanNull THEN NaN ELSE CleanText(s)

\* ------------------------------------------------------------------------
\* SpecNumeric: clean_numeric applied to one cell, and to its own result
\* ------------------------------------------------------------------------
Tokens ==
    { <<"1">>, <<"2">>, <<"0">>, <<"5">>, <<".">>, <<"-">>, <<"u2013">>, <<"%">>, <<"$">>, <<" ">>,
      <<"t", "o">>, <<" ", "o", "u", "t", " ", "o", "f", " ">>,
      <<"i", "n", "f">>, <<"N", "a", "N">>, <<"a", "b", "c">> }

TokenSeqs == UNION { [1..n -> Tokens] : n \in 0..MaxTokens }

Texts == { Concat(ts) : ts \in TokenSeqs }

NumberCells ==
    { IntCell(FALSE, 0), IntCell(FALSE, 15), IntCell(TRUE, 5),
      FloatCell(Norm(FALSE, 45, 1)), FloatCell(Norm(TRUE, 45, 1)),
      FloatCell(Norm(FALSE, 1, 5)), FloatCell(Inf(FALSE)), FloatCell(NaN) }

Cells == { StrCell(t) : t \in Texts } \cup NumberCells \cup {Missing}

NoRow ==
    /\ title = <<>>
    /\ derived = <<>>

NoBatch ==
    /\ sheets = <<>>
    /\ log = <<>>

NoProduct ==
    /\ kpi = <<>>
    /\ columns = <<>>
    /\ rows = <<>>
    /\ col_map = <<>>
    /\ data = <<>>
    /\ overrides = 0
    /\ warnings = {}

InitNumeric ==
    /\ cell \in Cells
    /\ out = PendingNum
    /\ again = PendingNum
    /\ field = None
    /\ selected = Pending
    /\ NoProduct
    /\ NoRow
    /\ NoBatch
    /\ pc = "clean"

\* data[col].apply(clean_numeric), one cell
Clean ==
    /\ pc = "clean"
    /\ out' = clean_numeric(cell)
    /\ pc' = "reparse"
    /\ UNCHANGED <<cell, again, columns, colVars, prodVars, kpi, rowVars, batchVars>>

\* clean_numeric on the float it returned (str(v) is what it reads)
Reparse ==
    /\ pc = "reparse"
    /\ again' = clean_numeric(FloatCell(out))
    /\ pc' = "done"
    /\ UNCHANGED <<cell, out, columns, colVars, prodVars, kpi, rowVars, batchVars>>

NextNumeric == Clean \/ Reparse

SpecNumeric == InitNumeric /\ [][NextNumeric]_vars

\* ------------------------------------------------------------------------
\* Claims about clean_numeric (SpecNumeric)
\* ------------------------------------------------------------------------
IsLetter(c) == \E i \in 1..Len(LowerOf) : LowerOf[i] = LowerChar(c)

NoDigitIn(s) == \A i \in 1..Len(s) : ~IsDigit(s[i])

Dashes == {"-", "u2013"}

\* the text as the parser contract reads it: dash variants as '-', currency
\* markers and thousands separators dropped
ContractText(s) ==
    [i \in 1..Len(RemoveChars(s, {"$", "u00a5", "uffe5", ","})) |->
        LET c == RemoveChars(s, {"$", "u00a5", "uffe5", ","})[i]
        IN  IF c \in Dashes THEN "-" ELSE c]

\* the numeric substrings digits(.digits)? of the cell, in order
ContractNums(s) == FindAllNums(ContractText(s))

\* a hyphen or dash standing between two numbers (blanks around it allowed)
HyphenBetweenNumbers(s) ==
    LET t == RemoveChars(ContractText(s), {" "})
    IN  \E i \in 2..(Len(t) - 1) : t[i] = "-" /\ IsDigit(t[i - 1]) /\ IsDigit(t[i + 1])

\* the word 'to' standing between two numbers (blanks around it allowed)
ToBetweenNumbers(s) ==
    LET t == Lower(RemoveChars(ContractText(s), {" "}))
    IN  \E i \in 2..(Len(t) - 2) :
            t[i] = "t" /\ t[i + 1] = "o" /\ IsDigit(t[i - 1]) /\ IsDigit(t[i + 2])

\* 'to' as a word of its own: no letter before it and none after it
StandaloneTo(s) ==
    LET t == Lower(s)
    IN  \E i \in 1..(Len(t) - 1) :
            /\ t[i] = "t" /\ t[i + 1] = "o"
            /\ (i = 1 \/ ~IsLetter(t[i - 1]))
            /\ (i + 1 = Len(t) \/ ~IsLetter(t[i + 2]))

HasPercent(s) == \E i \in 1..Len(s) : s[i] = "%"

Cleaned == out # PendingNum

\* C1: a missing cell, an empty or blank string, 'nan' / 'null' and every
\* string without a digit clean to NaN (never to 0 or another number).
C1_UnparseableIsNaN ==
    (/\ Cleaned
     /\ \/ cell.k = "missing"
        \/ /\ cell.k = "str"
           /\ \/ Strip(cell.s) = <<>>
              \/ Lower(Strip(cell.s)) \in NanNull
              \/ NoDigitIn(cell.s))
    => out = NaN

\* C2: a string with a range indicator (hyphen or dash variant between two
\* numbers, or 'to' between two numbers) and two numeric substrings cleans
\* to the mean of the first two numeric substrings.
C2_RangeIsMean ==
    (/\ Cleaned
     /\ cell.k = "str"
     /\ ~HasPercent(cell.s)
     /\ HyphenBetweenNumbers(cell.s) \/ ToBetweenNumbers(cell.s)
     /\ Len(ContractNums(cell.s)) >= 2)
    => NumEq(out, Mean2(PyFloat(ContractNums(cell.s)[1]), PyFloat(ContractNums(cell.s)[2])))

\* C3: a string with a numeric substring and no range indicator (no hyphen
\* between two numbers, no standalone word 'to') cleans to its first numeric
\* substring, also when more numbers follow in free text.
C3_FirstNumber ==
    (/\ Cleaned
     /\ cell.k = "str"
     /\ ~HasPercent(cell.s)
     /\ ContractNums(cell.s) # <<>>
     /\ ~HyphenBetweenNumbers(cell.s)
     /\ ~StandaloneTo(cell.s))
    => NumEq(out, PyFloat(ContractNums(cell.s)[1]))

\* C5: re-reading the text form of a parsed value gives the value again.
C5_Idempotent ==
    (Cleaned /\ again # PendingNum /\ ~IsNaN(out)) => NumEq(again, out)

\* the number a numeric cell holds
CellNumber(c) == IF c.k = "int" THEN Norm(c.neg, c.n, 0) ELSE c.v

\* C6: a cell that already is a number cleans to that same number, negative
\* numbers included.
C6_NumberUnchanged ==
    (Cleaned /\ cell.k \in {"int", "float"} /\ ~IsNA(cell)) => NumEq(out, CellNumber(cell))


\* ------------------------------------------------------------------------
\* find_col and the keyword lists of render_product_dashboard's col_map
\* ------------------------------------------------------------------------
Fields == <<"asin", "title", "brand", "price", "sales", "revenue", "rating", "reviews", "country", "size", "flavor", "rank">>

\* the keyword list passed to find_col for each field (lines 159-170)
Keywords(f) ==
    CASE f = "asin" ->
           <<<<"a", "s", "i", "n">>,
             <<"s", "k", "u">>,
             <<"i", "t", "e", "m", "i", "d">>,
             <<"u4ea7", "u54c1", "i", "d">>,
             <<"u5546", "u54c1", "i", "d">>>>
      [] f = "title" ->
           <<<<"t", "i", "t", "l", "e">>,
             <<"u6807", "u9898">>,
             <<"n", "a", "m", "e">>,
             <<"u5546", "u54c1", "u540d">>>>
      [] f = "brand" ->
           <<<<"b", "r", "a", "n", "d">>,
             <<"u54c1", "u724c">>,
             <<"m", "a", "n", "u", "f", "a", "c", "t", "u", "r", "e", "r">>,
             <<"m", "a", "k", "e", "r">>>>
      [] f = "price" ->
           <<<<"p", "r", "i", "c", "e">>,
             <<"u4ef7", "u683c">>,
             <<"u552e", "u4ef7">>,
             <<"u5747", "u4ef7">>,
             <<"c", "u", "r", "r", "e", "n", "t", "p", "r", "i", "c", "e">>,
             <<"b", "u", "y", "b", "o", "x">>>>
      [] f = "sales" ->
           <<<<"s", "a", "l", "e", "s">>,
             <<"u9500", "u91cf">>,
             <<"s", "o", "l", "d">>,
             <<"u", "n", "i", "t", "s">>,
             <<"o", "r", "d", "e", "r", "s">>>>
      [] f = "revenue" ->
           <<<<"r", "e", "v", "e", "n", "u", "e">>,
             <<"u9500", "u552e", "u989d">>,
             <<"a", "m", "o", "u", "n", "t">>,
             <<"g", "m", "v">>>>
      [] f = "rating" ->
           <<<<"r", "a", "t", "i", "n", "g">>,
             <<"u8bc4", "u5206">>,
             <<"s", "t", "a", "r", "s">>,
             <<"a", "v", "g", " ", "r", "a", "t", "i", "n", "g">>,
             <<"a", "v", "e", "r", "a", "g", "e", " ", "r", "a", "t", "i", "n", "g">>>>
      [] f = "reviews" ->
           <<<<"r", "e", "v", "i", "e", "w", "s">>,
             <<"u8bc4", "u8bba", "u6570">>,
             <<"u8bc4", "u4ef7", "u6570">>,
             <<"r", "a", "t", "i", "n", "g", "s", " ", "c", "o", "u", "n", "t">>,
             <<"r", "e", "v", "i", "e", "w", " ", "c", "o", "u", "n", "t">>,
             <<"u8bc4", "u5206", "u6570">>>>
      [] f = "country" ->
           <<<<"c", "o", "u", "n", "t", "r", "y">>,
             <<"r", "e", "g", "i", "o", "n">>,
             <<"u5356", "u5bb6", "u6240", "u5c5e", "u5730">>,
             <<"u6240", "u5c5e", "u5730">>,
             <<"u56fd", "u5bb6">>,
             <<"l", "o", "c", "a", "t", "i", "o", "n">>,
             <<"o", "r", "i", "g", "i", "n">>>>
      [] f = "size" ->
           <<<<"s", "i", "z", "e">>,
             <<"u51c0", "u542b", "u91cf">>,
             <<"u89c4", "u683c">>,
             <<"o", "z">>,
             <<"m", "l">>,
             <<"g">>,
             <<"g", "r", "a", "m">>,
             <<"o", "u", "n", "c", "e">>,
             <<"u5bb9", "u91cf">>>>
      [] f = "flavor" ->
           <<<<"f", "l", "a", "v", "o", "r">>,
             <<"u5473">>,
             <<"u9999", "u578b">>,
             <<"u9999", "u5473">>,
             <<"u53e3", "u5473">>,
             <<"v", "a", "r", "i", "a", "n", "t">>>>
      [] f = "rank" ->
           <<<<"r", "a", "n", "k">>,
             <<"b", "s", "r">>,
             <<"b", "e", "s", "t", " ", "s", "e", "l", "l", "e", "r", "s">>,
             <<"u6392", "u540d">>>>

\* str(col).lower().replace(" ", "")
NormName(name) == RemoveChars(Lower(name), {" "})

\* the test of line 104
KeywordHit(col, kw) == Contains(NormName(col), NormName(kw))

RECURSIVE FindFrom(_, _, _)
FindFrom(cols, keywords, i) ==
    IF i > Len(cols) THEN None
    ELSE IF \E j \in 1..Len(keywords) : KeywordHit(cols[i], keywords[j]) THEN cols[i]
    ELSE FindFrom(cols, keywords, i + 1)

\* a lookup that falls back on the first column instead of None
find_col_guess(cols, keywords) ==
    IF FindFrom(cols, keywords, 1) = None /\ cols # <<>> THEN cols[1]
    ELSE FindFrom(cols, keywords, 1)

find_col(cols, keywords) == FindFrom(cols, keywords, 1)

\* ------------------------------------------------------------------------
\* SpecFindCol: find_col on the header of one table
\* ------------------------------------------------------------------------
ColListPrice == <<"L", "i", "s", "t", " ", "P", "r", "i", "c", "e">>
ColOurPrice == <<"O", "u", "r", " ", "P", "r", "i", "c", "e">>
ColManufacturer == <<"M", "a", "n", "u", "f", "a", "c", "t", "u", "r", "e", "r">>
ColBrand == <<"B", "r", "a", "n", "d">>
ColSKU == <<"S", "K", "U">>
ColUnitsSold == <<"U", "n", "i", "t", "s", " ", "S", "o", "l", "d">>
ColTitle == <<"T", "i", "t", "l", "e">>
ColReviews == <<"R", "e", "v", "i", "e", "w", "s">>
ColRating == <<"R", "a", "t", "i", "n", "g">>
ColRatingCount == <<"R", "a", "t", "i", "n", "g", " ", "C", "o", "u", "n", "t">>
ColPrice == <<"P", "r", "i", "c", "e">>
ColStars == <<"S", "t", "a", "r", "s">>

ColPool ==
    { ColListPrice, ColOurPrice, ColManufacturer, ColBrand, ColSKU,
      ColUnitsSold, ColTitle, ColRating, ColRatingCount, ColPrice, ColStars }

Injective(q) == \A i, j \in 1..Len(q) : q[i] = q[j] => i = j

\* headers: column names are unique within a table
Headers == { q \in UNION { [1..n -> ColPool] : n \in 0..MaxCols } : Injective(q) }

FieldSet == { Fields[i] : i \in 1..Len(Fields) }

NoNumeric ==
    /\ cell = Missing
    /\ out = PendingNum
    /\ again = PendingNum

InitFindCol ==
    /\ columns \in Headers
    /\ field \in FieldSet
    /\ selected = Pending
    /\ NoNumeric
    /\ rows = <<>>
    /\ col_map = <<>>
    /\ data = <<>>
    /\ overrides = 0
    /\ warnings = {}
    /\ kpi = <<>>
    /\ NoRow
    /\ NoBatch
    /\ pc = "find"

FindCol ==
    /\ pc = "find"
    /\ selected' = find_col(columns, Keywords(field))
    /\ pc' = "found"
    /\ UNCHANGED <<numVars, columns, field, prodVars, kpi, rowVars, batchVars>>

NextFindCol == FindCol

SpecFindCol == InitFindCol /\ [][NextFindCol]_vars

\* ------------------------------------------------------------------------
\* Claims about find_col (SpecFindCol)
\* ------------------------------------------------------------------------
Found == selected # Pending

\* C7: for the header ['List Price', 'Our Price'] the price column is
\* 'Our Price', not 'List Price'.
C7_ListPriceExcluded ==
    (Found /\ field = "price" /\ columns = <<ColListPrice, ColOurPrice>>)
    => selected = ColOurPrice

\* the position in the field's keyword list of the keyword a column name is
\* (0 if the name is no keyword of the list)
KeywordIndex(col, f) ==
    IF \E j \in 1..Len(Keywords(f)) : NormName(col) = NormName(Keywords(f)[j])
    THEN CHOOSE j \in 1..Len(Keywords(f)) : NormName(col) = NormName(Keywords(f)[j])
    ELSE 0

\* C8: when two columns each are exactly one keyword of the field, the one
\* matching the earlier keyword is selected, whichever comes first in the
\* table.
C8_EarlierKeywordWins ==
    (/\ Found
     /\ Len(columns) = 2
     /\ KeywordIndex(columns[1], field) > 0
     /\ KeywordIndex(columns[2], field) > 0)
    => selected = (IF KeywordIndex(columns[1], field) <= KeywordIndex(columns[2], field)
                   THEN columns[1] ELSE columns[2])

NoKeywordInAnyColumn ==
    \A i \in 1..Len(columns) : \A j \in 1..Len(Keywords(field)) :
        ~Contains(NormName(columns[i]), NormName(Keywords(field)[j]))

\* C9: when no column name contains a keyword of the field the lookup gives
\* None, and whatever column it gives is a column of the table.
C9_NoMatchIsNone ==
    Found =>
        /\ NoKeywordInAnyColumn => selected = None
        /\ selected # None => \E i \in 1..Len(columns) : columns[i] = selected

\* a table with columns, none of them matching, was looked up
C9_Witness == Found /\ columns # <<>> /\ NoKeywordInAnyColumn /\ selected = None


\* ------------------------------------------------------------------------
\* numeric_diagnose: parse rate, median and 90th percentile of a column.
\* Series.median / Series.quantile skip NaN; quantile interpolates linearly
\* at position 0.9 * (n - 1).  The parsed values are finite here.
\* ------------------------------------------------------------------------
MaxOf(S) == CHOOSE x \in S : \A y \in S : y <= x

\* v * 10^E as an integer, for a finite v with at most E decimals
ToInt(v, E) == (IF v.neg THEN -1 ELSE 1) * v.m * Pow10(E - v.e)

FromInt(x, E) == IF x < 0 THEN Norm(TRUE, -x, E) ELSE Norm(FALSE, x, E)

\* a > b on floats (False when either is nan)
Gt(a, b) ==
    IF a.k # "fin" \/ b.k # "fin" THEN FALSE
    ELSE LET E == IF a.e > b.e THEN a.e ELSE b.e IN ToInt(a, E) > ToInt(b, E)

RECURSIVE Insert(_, _)
Insert(x, q) ==
    IF q = <<>> THEN <<x>>
    ELSE IF x <= Head(q) THEN <<x>> \o q
    ELSE <<Head(q)>> \o Insert(x, Tail(q))

RECURSIVE Sorted(_)
Sorted(q) == IF q = <<>> THEN <<>> ELSE Insert(Head(q), Sorted(Tail(q)))

\* the parsed values that are not NaN
NotNa(parsed) == SelectSeq(parsed, LAMBDA v : ~IsNaN(v))

Decimals(vs) == MaxOf({0} \cup { vs[i].e : i \in 1..Len(vs) })

SortedInts(vs) == Sorted([i \in 1..Len(vs) |-> ToInt(vs[i], Decimals(vs))])

\* parsed.median()
Median(parsed) ==
    LET vs == NotNa(parsed)
        xs == SortedInts(vs)
        n == Len(vs)
    IN  IF n = 0 THEN NaN
        ELSE IF n % 2 = 1 THEN FromInt(xs[(n + 1) \div 2], Decimals(vs))
        ELSE FromInt((xs[n \div 2] + xs[n \div 2 + 1]) * 5, Decimals(vs) + 1)

\* parsed.quantile(0.9)
Quantile90(parsed) ==
    LET vs == NotNa(parsed)
        xs == SortedInts(vs)
        n == Len(vs)
        lo == (9 * (n - 1)) \div 10 + 1
        fr == (9 * (n - 1)) % 10
        hi == IF lo < n THEN lo + 1 ELSE lo
    IN  IF n = 0 THEN NaN
        ELSE FromInt(10 * xs[lo] + (xs[hi] - xs[lo]) * fr, Decimals(vs) + 1)

\* rate is kept as the pair <<parsed, total>>; an empty series has rate 0.0
numeric_diagnose(series) ==
    LET parsed == [i \in 1..Len(series) |-> clean_numeric(series[i])]
    IN  [ok |-> Len(NotNa(parsed)), total |-> Len(series),
         med |-> Median(parsed), p90 |-> Quantile90(parsed)]

\* r < 0.25
RateBelowQuarter(d) == d.total = 0 \/ 4 * d.ok < d.total

\* ------------------------------------------------------------------------
\* The derived columns of one row (render_product_dashboard, section 7)
\* ------------------------------------------------------------------------
\* np.nan where a text is expected
NaNText == <<"NaN">>

\* \s and \w of the re module, on the characters the titles are made of
IsSpace(c) == c = " "
IsWord(c) == IsLetter(c) \/ IsDigit(c) \/ c = "_"

RECURSIVE SkipSpaces(_, _)
\* the position after \s* read from position i
SkipSpaces(t, i) == IF i <= Len(t) /\ IsSpace(t[i]) THEN SkipSpaces(t, i + 1) ELSE i

RECURSIVE SkipDigits(_, _)
\* the position after \d* read from position i
SkipDigits(t, i) == IF i <= Len(t) /\ IsDigit(t[i]) THEN SkipDigits(t, i + 1) ELSE i

\* the literal w is read at position i
Lit(t, i, w) == i + Len(w) - 1 <= Len(t) /\ SubSeq(t, i, i + Len(w) - 1) = w

\* \b between positions i - 1 and i
WordBoundary(t, i) ==
    (i > 1 /\ IsWord(t[i - 1])) # (i <= Len(t) /\ IsWord(t[i]))

\* each alternative gives the position after its match at i, 0 without a match
\* pack\s*of\s*\d+
PackOfN(t, i) ==
    IF ~Lit(t, i, <<"p", "a", "c", "k">>) THEN 0
    ELSE LET j == SkipSpaces(t, i + 4)
         IN  IF ~Lit(t, j, <<"o", "f">>) THEN 0
             ELSE LET d == SkipSpaces(t, j + 2)
                      z == SkipDigits(t, d)
                  IN  IF z > d THEN z ELSE 0

\* \d+\s*<word>\b
NThen(t, i, word) ==
    LET d == SkipDigits(t, i)
        j == SkipSpaces(t, d)
        z == j + Len(word)
    IN  IF d > i /\ Lit(t, j, word) /\ WordBoundary(t, z) THEN z ELSE 0

\* \bx\s*\d+
XN(t, i) ==
    IF ~(WordBoundary(t, i) /\ Lit(t, i, <<"x">>)) THEN 0
    ELSE LET d == SkipSpaces(t, i + 1)
             z == SkipDigits(t, d)
         IN  IF z > d THEN z ELSE 0

\* the alternation at position i: the first alternative that matches there
PackMatchAt(t, i) ==
    IF PackOfN(t, i) # 0 THEN PackOfN(t, i)
    ELSE IF NThen(t, i, <<"p", "a", "c", "k">>) # 0 THEN NThen(t, i, <<"p", "a", "c", "k">>)
    ELSE IF NThen(t, i, <<"c", "o", "u", "n", "t">>) # 0 THEN NThen(t, i, <<"c", "o", "u", "n", "t">>)
    ELSE XN(t, i)

\* re.search: the match at the leftmost position that has one; <<>> is None
PackSearch(t) ==
    LET at == { i \in 1..Len(t) : PackMatchAt(t, i) # 0 }
    IN  IF at = {} THEN <<>>
        ELSE LET i == CHOOSE x \in at : \A y \in at : x <= y
             IN  SubSeq(t, i, PackMatchAt(t, i) - 1)

\* re.findall(r"\d+", g)[0], <<>> when there is none
FirstDigits(g) ==
    LET at == { i \in 1..Len(g) : IsDigit(g[i]) }
    IN  IF at = {} THEN <<>>
        ELSE LET i == CHOOSE x \in at : \A y \in at : x <= y
             IN  SubSeq(g, i, SkipDigits(g, i) - 1)

extract_pack(t) ==
    LET m == PackSearch(Lower(t))
    IN  IF m # <<>> /\ FirstDigits(m) # <<>> THEN DigitsToInt(FirstDigits(m)) ELSE 1

TECH_KW ==
    <<
      <<"n", "a", "n", "o">>,
      <<"h", "y", "d", "r", "o", "x", "y", "a", "p", "a", "t", "i", "t", "e">>,
      <<"h", "a", "p">>,
      <<"f", "l", "u", "o", "r", "i", "d", "e", "-", "f", "r", "e", "e">>,
      <<"f", "l", "u", "o", "r", "i", "d", "e", " ", "f", "r", "e", "e">>,
      <<"x", "y", "l", "i", "t", "o", "l">>,
      <<"c", "h", "a", "r", "c", "o", "a", "l">>,
      <<"p", "r", "o", "b", "i", "o", "t", "i", "c">>,
      <<"b", "i", "o", "m", "i", "m", "e", "t", "i", "c">> >>

EFF_KW ==
    <<
      <<"r", "e", "m", "i", "n", "e", "r", "a", "l">>,
      <<"r", "e", "m", "i", "n", "e", "r", "a", "l", "i", "z", "a", "t", "i", "o", "n">>,
      <<"s", "e", "n", "s", "i", "t", "i", "v", "i", "t", "y">>,
      <<"s", "e", "n", "s", "i", "t", "i", "v", "e">>,
      <<"w", "h", "i", "t", "e", "n", "i", "n", "g">>,
      <<"s", "t", "a", "i", "n">>,
      <<"e", "n", "a", "m", "e", "l">>,
      <<"g", "u", "m">>,
      <<"f", "r", "e", "s", "h", " ", "b", "r", "e", "a", "t", "h">>,
      <<"c", "a", "v", "i", "t", "y">>,
      <<"p", "l", "a", "q", "u", "e">>,
      <<"t", "a", "r", "t", "a", "r">>,
      <<"r", "e", "p", "a", "i", "r">> >>

extract_kw_list(text, kws) ==
    LET tl == Lower(text) IN SelectSeq(kws, LAMBDA k : Contains(tl, k))

\* x[-1] if len(x) else np.nan
MainTagLast(hits) == IF Len(hits) > 0 THEN hits[Len(hits)] ELSE NaNText

\* x[0] if len(x) else np.nan
MainTag(hits) == IF Len(hits) > 0 THEN hits[1] ELSE NaNText

PriceBins == <<0, 10, 15, 20, 30, 1000>>

PriceLabels ==
    <<
      <<"<", "1", "0">>,
      <<"1", "0", "-", "1", "5">>,
      <<"1", "5", "-", "2", "0">>,
      <<"2", "0", "-", "3", "0">>,
      <<"3", "0", "+">> >>

\* lo < v <= hi for a float v and integers lo, hi
InBin(v, lo, hi) ==
    /\ v.k = "fin"
    /\ ToInt(v, v.e) > lo * Pow10(v.e)
    /\ ToInt(v, v.e) <= hi * Pow10(v.e)

\* pd.cut(v, bins, labels): right-closed bins, nothing outside them
Price_Band(v) ==
    LET at == { i \in 1..Len(PriceLabels) : InBin(v, PriceBins[i], PriceBins[i + 1]) }
    IN  IF at = {} THEN NaNText ELSE PriceLabels[CHOOSE i \in at : TRUE]

\* v / n for an integer n > 0, kept as the exact quotient
Quot(v, n) ==
    IF v.k # "fin" \/ n = 1 THEN v ELSE [k |-> "quot", num |-> v, den |-> n]

Unit_Price_per_item(price, pack) ==
    IF ~IsNaN(price) /\ pack > 0 THEN Quot(price, pack) ELSE NaN

\* the columns derived from Title_Str and clean_price
DeriveRow(t, price) ==
    LET pack == extract_pack(t)
        tech == extract_kw_list(t, TECH_KW)
        eff == extract_kw_list(t, EFF_KW)
    IN  [Pack_Count |-> pack,
         Tech_Tags |-> tech,
         Eff_Tags |-> eff,
         Tech_Main |-> MainTag(tech),
         Eff_Main |-> MainTag(eff),
         Price_Band |-> Price_Band(price),
         Unit_Price_per_item |-> Unit_Price_per_item(price, pack)]

\* ------------------------------------------------------------------------
\* SpecRow: the derived columns of one row, from its Title and Price cells
\* ------------------------------------------------------------------------
\* the pieces the titles are written with
TitleWords ==
    { <<"P", "a", "c", "k", " ", "o", "f", " ", "2">>,
      <<"3", " ", "C", "o", "u", "n", "t">>,
      <<"2", " ", "P", "a", "c", "k">>,
      <<"x", "4">>,
      <<"P", "a", "c", "k", " ", "o", "f", " ", "0">>,
      <<"W", "h", "i", "t", "e", "n", "i", "n", "g", " ", "N", "a", "n", "o">>,
      <<"C", "h", "a", "r", "c", "o", "a", "l", " ", "G", "u", "m">>,
      <<"M", "i", "n", "t">> }

RECURSIVE JoinWords(_)
JoinWords(ws) ==
    IF ws = <<>> THEN <<>>
    ELSE IF Len(ws) = 1 THEN ws[1]
    ELSE ws[1] \o <<" ">> \o JoinWords(Tail(ws))

Titles == { JoinWords(ws) : ws \in UNION { [1..n -> TitleWords] : n \in 0..MaxWords } }

PriceCells ==
    { StrCell(<<"0">>),
      StrCell(<<"1", "0">>),
      StrCell(<<"1", "2", ".", "9", "9">>),
      StrCell(<<"3", "0">>),
      StrCell(<<"1", "2", "0", "0">>),
      StrCell(<<"-", "5", "%">>),
      StrCell(<<"i", "n", "f", "%">>),
      Missing }

InitRow ==
    /\ title \in Titles
    /\ cell \in PriceCells
    /\ out = PendingNum
    /\ again = PendingNum
    /\ derived = <<>>
    /\ field = None
    /\ selected = Pending
    /\ NoProduct
    /\ NoBatch
    /\ pc = "price"

\* data["clean_price"] = data[col_map["price"]].apply(clean_numeric), one row
CleanPrice ==
    /\ pc = "price"
    /\ out' = clean_numeric(cell)
    /\ pc' = "derive"
    /\ UNCHANGED <<cell, again, columns, colVars, prodVars, kpi, rowVars, batchVars>>

\* lines 296-349, one row
DeriveColumns ==
    /\ pc = "derive"
    /\ derived' = DeriveRow(title, out)
    /\ pc' = "derived"
    /\ UNCHANGED <<numVars, columns, colVars, prodVars, kpi, title, batchVars>>

NextRow == CleanPrice \/ DeriveColumns

SpecRow == InitRow /\ [][NextRow]_vars

\* ------------------------------------------------------------------------
\* Claims about the derived columns (SpecRow)
\* ------------------------------------------------------------------------
Derived == pc = "derived"

\* the position after the match of pattern p (1 "pack of N", 2 "N pack",
\* 3 "N count", 4 "xN") at position i, 0 without a match
PatternAt(t, i, p) ==
    CASE p = 1 -> PackOfN(t, i)
      [] p = 2 -> NThen(t, i, <<"p", "a", "c", "k">>)
      [] p = 3 -> NThen(t, i, <<"c", "o", "u", "n", "t">>)
      [] p = 4 -> XN(t, i)

\* the numbers next to the occurrences of pattern p in t
PatternNumbers(t, p) ==
    { DigitsToInt(FirstDigits(SubSeq(t, i, PatternAt(t, i, p) - 1))) :
        i \in { j \in 1..Len(t) :
                  PatternAt(t, j, p) # 0 /\ (j = 1 \/ ~IsDigit(t[j - 1])) } }

HasPattern(t) == \E p \in 1..4 : PatternNumbers(t, p) # {}

TopPattern(t) ==
    CHOOSE p \in 1..4 :
        PatternNumbers(t, p) # {} /\ \A q \in 1..(p - 1) : PatternNumbers(t, q) = {}

\* C15: a title with a pack-size pattern gets the number next to the pattern,
\* and with several patterns the number of the one highest in the order
\* "pack of N", "N pack", "N count", "xN"
C15_PackPriority ==
    (Derived /\ HasPattern(Lower(title))) =>
        derived.Pack_Count \in PatternNumbers(Lower(title), TopPattern(Lower(title)))

\* C16: the pack count is an integer of at least 1, and exactly 1 for a title
\* without a pack-size pattern
C16_PackCountPositive ==
    Derived =>
        /\ derived.Pack_Count >= 1
        /\ ~HasPattern(Lower(title)) => derived.Pack_Count = 1

\* a finite float, or quotient of one, that is not below zero
FiniteNonNegative(u) ==
    \/ u.k = "fin" /\ (~u.neg \/ u.m = 0)
    \/ u.k = "quot" /\ (~u.num.neg \/ u.num.m = 0)

\* C17: the unit price is missing or a finite non-negative number, the price
\* divided by the pack count; a pack count of 0 or a missing price gives missing
C17_UnitPriceRange ==
    Derived =>
        /\ IsNaN(derived.Unit_Price_per_item) \/ FiniteNonNegative(derived.Unit_Price_per_item)
        /\ ~IsNaN(derived.Unit_Price_per_item) =>
               derived.Unit_Price_per_item = Quot(out, derived.Pack_Count)
        /\ (derived.Pack_Count = 0 \/ IsNaN(out)) => IsNaN(derived.Unit_Price_per_item)

\* the first keyword of the list, in the list's order, that the title holds
FirstHit(kws, t) ==
    LET hit == { i \in 1..Len(kws) : Contains(Lower(t), kws[i]) }
    IN  IF hit = {} THEN NaNText ELSE kws[CHOOSE i \in hit : \A j \in hit : i <= j]

\* C18: each category's main tag is the first keyword of its list, in the
\* list's order, found in the title whatever the letters' case; it is missing
\* exactly when no keyword of the list is found
C18_FirstKeywordInListOrder ==
    Derived =>
        /\ derived.Tech_Main = FirstHit(TECH_KW, title)
        /\ derived.Eff_Main = FirstHit(EFF_KW, title)
        /\ derived.Tech_Main = NaNText <=> \A i \in 1..Len(TECH_KW) : ~Contains(Lower(title), TECH_KW[i])
        /\ derived.Eff_Main = NaNText <=> \A i \in 1..Len(EFF_KW) : ~Contains(Lower(title), EFF_KW[i])

\* where k first occurs in t
PosIn(t, k) == CHOOSE i \in 0..Len(t) : /\ SubSeq(t, i + 1, i + Len(k)) = k
                                        /\ \A j \in 0..(i - 1) : SubSeq(t, j + 1, j + Len(k)) # k

\* C18: a title was tagged in which a keyword later in the list stands before
\* the main tag in the text, in both categories
C18_Witness ==
    /\ Derived
    /\ \E i \in 2..Len(derived.Tech_Tags) :
           PosIn(Lower(title), derived.Tech_Tags[i]) < PosIn(Lower(title), derived.Tech_Main)
    /\ \E i \in 2..Len(derived.Eff_Tags) :
           PosIn(Lower(title), derived.Eff_Tags[i]) < PosIn(Lower(title), derived.Eff_Main)

\* v >= n for a float v and an integer n
GeInt(v, n) ==
    \/ v.k = "inf" /\ ~v.neg
    \/ v.k = "fin" /\ ToInt(v, v.e) >= n * Pow10(v.e)

\* the band of half-open intervals: below 10, 10 to below 15, 15 to below 20,
\* 20 to below 30, 30 and above
HalfOpenBand(v) ==
    IF GeInt(v, 30) THEN PriceLabels[5]
    ELSE IF GeInt(v, 20) THEN PriceLabels[4]
    ELSE IF GeInt(v, 15) THEN PriceLabels[3]
    ELSE IF GeInt(v, 10) THEN PriceLabels[2]
    ELSE PriceLabels[1]

\* C19: a row with a price has exactly the band of the half-open interval the
\* price lies in, and a row without a price has no band
C19_PriceBands ==
    Derived =>
        IF IsNaN(out) THEN derived.Price_Band = NaNText
        ELSE derived.Price_Band = HalfOpenBand(out)

\* ------------------------------------------------------------------------
\* Spec: render_product_dashboard on one table
\* ------------------------------------------------------------------------
ProductHeaders ==
    { <<ColTitle, ColPrice, ColRating>>,
      <<ColTitle, ColPrice, ColRatingCount>>,
      <<ColSKU, ColPrice, ColUnitsSold>>,
      <<ColTitle, ColBrand, ColReviews, ColUnitsSold>> }

\* the cell texts a column of the input tables may hold
CellPool(name) ==
    CASE name = ColTitle -> { StrCell(<<"M", "i", "n", "t">>) }
      [] name = ColSKU -> { StrCell(<<"B", "0", "1">>) }
      [] name = ColPrice -> { StrCell(<<"$", "1", "2", ".", "9", "9">>), StrCell(<<"5", "0", "%">>) }
      [] name = ColRating ->
           { StrCell(<<"5", ".", "4">>), StrCell(<<"1">>), StrCell(<<"7">>) }
      [] name = ColRatingCount ->
           { StrCell(<<"4", "5", "0", "0">>), StrCell(<<"1", "2", "0">>) }
      [] name = ColUnitsSold -> { StrCell(<<"1", "5">>), Missing }
      [] name = ColBrand -> { StrCell(<<"A", "c", "m", "e">>) }
      [] name = ColReviews -> { StrCell(<<"1", "2", "0">>), Missing }

RECURSIVE RowsOf(_)
\* the rows a table with header h may hold
RowsOf(h) ==
    IF h = <<>> THEN { <<>> }
    ELSE { <<c>> \o r : c \in CellPool(Head(h)), r \in RowsOf(Tail(h)) }

ColIndex(name) == CHOOSE i \in 1..Len(columns) : columns[i] = name

\* df[name]
Column(name) == [r \in 1..Len(rows) |-> rows[r][ColIndex(name)]]

\* the fields whose selectbox the model lets the user change
OverridableFields == {"title", "price", "rating"}

Init ==
    /\ columns \in ProductHeaders
    /\ rows \in UNION { [1..n -> RowsOf(columns)] : n \in 0..MaxRows }
    /\ col_map = [f \in FieldSet |-> None]
    /\ data = <<>>
    /\ overrides = 0
    /\ warnings = {}
    /\ NoNumeric
    /\ field = None
    /\ selected = Pending
    /\ kpi = <<>>
    /\ NoRow
    /\ NoBatch
    /\ pc = "map"

\* lines 158-171
MapColumns ==
    /\ pc = "map"
    /\ col_map' = [f \in FieldSet |-> find_col(columns, Keywords(f))]
    /\ pc' = "override"
    /\ UNCHANGED <<kpi, rowVars, batchVars, numVars, columns, colVars, rows, data, overrides, warnings>>

\* lines 174-192: one selectbox is set to another entry of [None] + all_cols
Override(f, c) ==
    /\ pc = "override"
    /\ overrides < MaxOverrides
    /\ col_map[f] # c
    /\ col_map' = [col_map EXCEPT ![f] = c]
    /\ overrides' = overrides + 1
    /\ UNCHANGED <<kpi, rowVars, batchVars, numVars, columns, colVars, rows, data, warnings, pc>>

\* a required-field check that asks for the brand as well
RejectNoTitleOrBrand ==
    /\ pc = "override"
    /\ col_map["title"] = None \/ col_map["brand"] = None
    /\ warnings' = warnings \cup {"error: no title column"}
    /\ pc' = "rejected"
    /\ UNCHANGED <<kpi, rowVars, batchVars, numVars, columns, colVars, rows, col_map, data, overrides>>

\* lines 195-197
RejectNoTitle ==
    /\ pc = "override"
    /\ col_map["title"] = None
    /\ warnings' = warnings \cup {"error: no title column"}
    /\ pc' = "rejected"
    /\ UNCHANGED <<kpi, rowVars, batchVars, numVars, columns, colVars, rows, col_map, data, overrides>>

CleanOf(f, r) == IF col_map[f] # None THEN clean_numeric(Column(col_map[f])[r]) ELSE NaN

\* lines 199-226
CleanColumns ==
    /\ pc = "override"
    /\ col_map["title"] # None
    /\ data' = [r \in 1..Len(rows) |->
                 [Title_Str |-> PyStr(Column(col_map["title"])[r]),
                  clean_price |-> CleanOf("price", r),
                  clean_sales |-> CleanOf("sales", r),
                  clean_revenue |-> CleanOf("revenue", r),
                  clean_rating |-> CleanOf("rating", r),
                  clean_reviews |-> CleanOf("reviews", r)]]
    /\ pc' = "diagnose"
    /\ UNCHANGED <<kpi, rowVars, batchVars, numVars, columns, colVars, rows, col_map, overrides, warnings>>

\* line 244
PriceSuspect ==
    /\ col_map["price"] # None
    /\ LET d == numeric_diagnose(Column(col_map["price"]))
       IN  RateBelowQuarter(d) \/ Gt(d.med, Norm(FALSE, 300, 0))

\* a gate that forgets the 90th percentile
RatingImplausibleMedianOnly ==
    /\ col_map["rating"] # None
    /\ LET d == numeric_diagnose(Column(col_map["rating"]))
       IN  ~IsFinite(d.med) \/ Gt(d.med, Norm(FALSE, 55, 1))

\* line 260
RatingImplausible ==
    /\ col_map["rating"] # None
    /\ LET d == numeric_diagnose(Column(col_map["rating"]))
       IN  ~IsFinite(d.med) \/ Gt(d.med, Norm(FALSE, 55, 1)) \/ Gt(d.p90, Norm(FALSE, 6, 0))

\* line 271
SalesLowParse ==
    /\ col_map["sales"] # None
    /\ RateBelowQuarter(numeric_diagnose(Column(col_map["sales"])))

\* lines 237-281
Diagnose ==
    /\ pc = "diagnose"
    /\ warnings' = warnings
          \cup (IF PriceSuspect THEN {"warning: price column"} ELSE {})
          \cup (IF RatingImplausible THEN {"warning: rating disabled"} ELSE {})
          \cup (IF SalesLowParse THEN {"warning: sales column"} ELSE {})
    /\ IF RatingImplausible
       THEN /\ data' = [r \in 1..Len(data) |-> [data[r] EXCEPT !.clean_rating = NaN]]
            /\ col_map' = [col_map EXCEPT !["rating"] = None]
       ELSE UNCHANGED <<data, col_map>>
    /\ pc' = "derive"
    /\ UNCHANGED <<kpi, rowVars, batchVars, numVars, columns, colVars, rows, overrides>>

RECURSIVE SumInts(_)
SumInts(xs) == IF xs = <<>> THEN 0 ELSE Head(xs) + SumInts(Tail(xs))

\* Series.sum(skipna=True): 0.0 for nothing to add, inf - inf is nan
SumSkipNa(parsed) ==
    LET vs == NotNa(parsed)
        fin == SelectSeq(vs, LAMBDA v : v.k = "fin")
        up == \E i \in 1..Len(vs) : vs[i] = Inf(FALSE)
        down == \E i \in 1..Len(vs) : vs[i] = Inf(TRUE)
    IN  IF up /\ down THEN NaN
        ELSE IF up THEN Inf(FALSE)
        ELSE IF down THEN Inf(TRUE)
        ELSE FromInt(SumInts([i \in 1..Len(fin) |-> ToInt(fin[i], Decimals(fin))]), Decimals(fin))

\* data[c].notna().any()
AnyNotNa(c) == \E r \in 1..Len(data) : ~IsNaN(data[r][c])

\* line 426
demand_proxy ==
    IF AnyNotNa("clean_reviews")
    THEN SumSkipNa([r \in 1..Len(data) |-> data[r].clean_reviews])
    ELSE NaN

\* lines 757-764
sort_key ==
    IF AnyNotNa("clean_sales") THEN "clean_sales"
    ELSE IF AnyNotNa("clean_reviews") THEN "clean_reviews"
    ELSE IF AnyNotNa("clean_revenue") THEN "clean_revenue"
    ELSE "None"

\* lines 353-360
Brand_Str(r) ==
    IF col_map["brand"] # None THEN PyStr(Column(col_map["brand"])[r]) ELSE NaNText

\* sections 7 and 8: the derived columns of every row and the figures of the cards
Analyse ==
    /\ pc = "derive"
    /\ data' = [r \in 1..Len(data) |->
                 data[r] @@ DeriveRow(data[r].Title_Str, data[r].clean_price)
                         @@ [Brand_Str |-> Brand_Str(r)]]
    /\ kpi' = [demand_proxy |-> demand_proxy, sort_key |-> sort_key]
    /\ pc' = "done"
    /\ UNCHANGED <<rowVars, batchVars, numVars, columns, colVars, rows, col_map, overrides, warnings>>

Next ==
    \/ MapColumns
    \/ \E f \in OverridableFields : \E c \in {None} \cup { columns[i] : i \in 1..Len(columns) } :
          Override(f, c)
    \/ RejectNoTitle
    \/ CleanColumns
    \/ Diagnose
    \/ Analyse

Spec == Init /\ [][Next]_vars


\* ------------------------------------------------------------------------
\* Claims about render_product_dashboard (Spec)
\* ------------------------------------------------------------------------
CleanedRows == pc \in {"diagnose", "derive"}

\* C4: a cell of the mapped price column never cleans to its number divided
\* by 100 because its text holds a '%'.
C4_NoPercentModeOnPrice ==
    (CleanedRows /\ col_map["price"] # None) =>
        \A r \in 1..Len(rows) :
            LET c == Column(col_map["price"])[r]
            IN  (/\ c.k = "str"
                 /\ HasPercent(c.s)
                 /\ ContractNums(c.s) # <<>>
                 /\ PyFloat(ContractNums(c.s)[1]).m # 0)
                => ~NumEq(data[r].clean_price, Div100(PyFloat(ContractNums(c.s)[1])))

\* the parsed values of the mapped rating column
RatingParsed == [r \in 1..Len(rows) |-> clean_numeric(Column(col_map["rating"])[r])]

\* median above 5.5, 90th percentile above 6.0, or nothing parsed
RatingFailsBound ==
    \/ NotNa(RatingParsed) = <<>>
    \/ Gt(Median(RatingParsed), Norm(FALSE, 55, 1))
    \/ Gt(Quantile90(RatingParsed), Norm(FALSE, 6, 0))

\* C10: when the mapped rating column fails the plausibility bound, the
\* diagnosis step unmaps rating and blanks every record's rating, and the
\* table goes on to the derivations with its records and prices intact.
C10_RatingGate ==
    [][(pc = "diagnose" /\ col_map["rating"] # None /\ RatingFailsBound)
       => /\ col_map'["rating"] = None
          /\ Len(data') = Len(rows)
          /\ \A r \in 1..Len(rows) :
                /\ data'[r].clean_rating = NaN
                /\ data'[r].clean_price = data[r].clean_price
          /\ pc' = "derive"]_vars

\* a column of review counts (4500, 120) mapped to rating was disqualified by
\* the diagnosis, and the table's prices are still there
C10_Witness ==
    /\ pc = "derive"
    /\ columns = <<ColTitle, ColPrice, ColRatingCount>>
    /\ Len(rows) = 2
    /\ rows[1][3] = StrCell(<<"4", "5", "0", "0">>)
    /\ rows[2][3] = StrCell(<<"1", "2", "0">>)
    /\ "warning: rating disabled" \in warnings
    /\ col_map["rating"] = None
    /\ \A r \in 1..2 : IsNaN(data[r].clean_rating) /\ ~IsNaN(data[r].clean_price)

\* the table went past the diagnosis to the derivations
Downstream == pc \in {"derive", "done"}

\* 0 <= v <= 5
InRatingRange(v) ==
    /\ v.k = "fin"
    /\ ~v.neg \/ v.m = 0
    /\ ToInt(v, v.e) <= 5 * Pow10(v.e)

\* C11: in every record that goes on to the derivations, the rating is
\* missing or a value from 0 to 5.
C11_RatingInRange ==
    Downstream =>
        \A r \in 1..Len(data) : IsNaN(data[r].clean_rating) \/ InRatingRange(data[r].clean_rating)

Available(c) == AnyNotNa(c)

Total(c) == SumSkipNa([r \in 1..Len(data) |-> data[r][c]])

Zero == Norm(FALSE, 0, 0)

\* C14: the demand proxy is never missing; it comes from the reviews when
\* there are any, else from the sales, else from the revenue, and it is 0 when
\* the table has no reviews, sales, revenue or price (the tables have no rank).
C14_DemandProxyChain ==
    pc = "done" =>
        /\ ~IsNaN(kpi.demand_proxy)
        /\ Available("clean_reviews") => NumEq(kpi.demand_proxy, Total("clean_reviews"))
        /\ (~Available("clean_reviews") /\ Available("clean_sales")) =>
               NumEq(kpi.demand_proxy, Total("clean_sales"))
        /\ (~Available("clean_reviews") /\ ~Available("clean_sales") /\ Available("clean_revenue")) =>
               NumEq(kpi.demand_proxy, Total("clean_revenue"))
        /\ (\A c \in {"clean_reviews", "clean_sales", "clean_revenue", "clean_price"} : ~Available(c)) =>
               NumEq(kpi.demand_proxy, Zero)

\* ------------------------------------------------------------------------
\* SpecBrand: render_brand_dashboard on one table
\* ------------------------------------------------------------------------
BrandFields == {"brand", "share", "rev", "price"}

\* lines 788-791
BrandKeywords(f) ==
    CASE f = "brand" ->
           <<<<"b", "r", "a", "n", "d">>,
             <<"u54c1", "u724c">>>>
      [] f = "share" ->
           <<<<"s", "h", "a", "r", "e">>,
             <<"u4efd", "u989d">>>>
      [] f = "rev" ->
           <<<<"r", "e", "v", "e", "n", "u", "e">>,
             <<"u9500", "u552e", "u989d">>,
             <<"g", "m", "v">>,
             <<"a", "m", "o", "u", "n", "t">>>>
      [] f = "price" ->
           <<<<"p", "r", "i", "c", "e">>,
             <<"u4ef7", "u683c">>,
             <<"u5747", "u4ef7">>>>

ColShare == <<"S", "h", "a", "r", "e">>

\* the cell texts of the Share column
ShareCells ==
    { StrCell(<<"6", "0", "%">>), StrCell(<<"-", "5", "0", "%">>), StrCell(<<"i", "n", "f", "%">>) }

BrandRows == { <<b, c>> : b \in CellPool(ColBrand), c \in ShareCells }

\* the fields whose selectbox the model lets the user change
BrandOverridable == {"brand", "rev"}

InitBrand ==
    /\ columns = <<ColBrand, ColShare>>
    /\ rows \in UNION { [1..n -> BrandRows] : n \in 0..MaxBrands }
    /\ col_map = [f \in BrandFields |-> None]
    /\ data = <<>>
    /\ overrides = 0
    /\ warnings = {}
    /\ kpi = <<>>
    /\ NoNumeric
    /\ field = None
    /\ selected = Pending
    /\ NoRow
    /\ NoBatch
    /\ pc = "brand map"

\* lines 787-792
MapBrandColumns ==
    /\ pc = "brand map"
    /\ col_map' = [f \in BrandFields |-> find_col(columns, BrandKeywords(f))]
    /\ pc' = "brand override"
    /\ UNCHANGED <<kpi, rowVars, batchVars, numVars, columns, colVars, rows, data, overrides, warnings>>

\* lines 794-800: one selectbox is set to another entry of [None] + all_cols
BrandOverride(f, c) ==
    /\ pc = "brand override"
    /\ overrides < MaxOverrides
    /\ col_map[f] # c
    /\ col_map' = [col_map EXCEPT ![f] = c]
    /\ overrides' = overrides + 1
    /\ UNCHANGED <<kpi, rowVars, batchVars, numVars, columns, colVars, rows, data, warnings, pc>>

\* lines 802-804
RejectNoBrand ==
    /\ pc = "brand override"
    /\ col_map["brand"] = None
    /\ warnings' = warnings \cup {"error: no brand column"}
    /\ pc' = "rejected"
    /\ UNCHANGED <<kpi, rowVars, batchVars, numVars, columns, colVars, rows, col_map, data, overrides>>

\* lines 806-821
CleanBrandColumns ==
    /\ pc = "brand override"
    /\ col_map["brand"] # None
    /\ data' = [r \in 1..Len(rows) |->
                 [clean_share |-> CleanOf("share", r),
                  clean_rev |-> CleanOf("rev", r),
                  clean_price |-> CleanOf("price", r)]]
    /\ pc' = "value"
    /\ UNCHANGED <<kpi, rowVars, batchVars, numVars, columns, colVars, rows, col_map, overrides, warnings>>

\* lines 824-828
val_col ==
    IF AnyNotNa("clean_rev") THEN "clean_rev"
    ELSE IF AnyNotNa("clean_share") THEN "clean_share"
    ELSE "None"

\* lines 830-832
RejectNoValue ==
    /\ pc = "value"
    /\ val_col = "None"
    /\ warnings' = warnings \cup {"error: no revenue or share data"}
    /\ pc' = "rejected"
    /\ UNCHANGED <<kpi, rowVars, batchVars, numVars, columns, colVars, rows, col_map, data, overrides>>

\* Series.sort_values(ascending=False): inf first, NaN last
SortDescending(vs) ==
    LET fin == SelectSeq(vs, LAMBDA v : v.k = "fin")
        xs == SortedInts(fin)
        n == Len(xs)
    IN  SelectSeq(vs, LAMBDA v : v = Inf(FALSE))
        \o [i \in 1..n |-> FromInt(xs[n + 1 - i], Decimals(fin))]
        \o SelectSeq(vs, LAMBDA v : v = Inf(TRUE))
        \o SelectSeq(vs, LAMBDA v : IsNaN(v))

\* data.head(5)
Head5(q) == SubSeq(q, 1, IF Len(q) < 5 THEN Len(q) ELSE 5)

\* a > 0 on a float
Positive(a) == (a.k = "inf" /\ ~a.neg) \/ (a.k = "fin" /\ ~a.neg /\ a.m > 0)

\* a / b for floats, b > 0; a finite quotient is kept as the fraction num / den
Divide(a, b) ==
    IF IsNaN(a) \/ IsNaN(b) THEN NaN
    ELSE IF a.k = "inf" THEN (IF b.k = "inf" THEN NaN ELSE a)
    ELSE IF b.k = "inf" THEN Norm(a.neg, 0, 0)
    ELSE LET E == IF a.e > b.e THEN a.e ELSE b.e
         IN  [k |-> "ratio", num |-> ToInt(a, E), den |-> ToInt(b, E)]

\* lines 839-841
cr5 ==
    LET sorted == SortDescending([r \in 1..Len(data) |-> data[r][val_col]])
        top5 == SumSkipNa(Head5(sorted))
        total == SumSkipNa(sorted)
    IN  IF Positive(total) THEN Divide(top5, total) ELSE Norm(FALSE, 0, 0)

\* lines 834-842
Concentration ==
    /\ pc = "value"
    /\ val_col # "None"
    /\ kpi' = [val_col |-> val_col, cr5 |-> cr5]
    /\ pc' = "done"
    /\ UNCHANGED <<rowVars, batchVars, numVars, columns, colVars, rows, col_map, data, overrides, warnings>>

NextBrand ==
    \/ MapBrandColumns
    \/ \E f \in BrandOverridable : \E c \in {None} \cup { columns[i] : i \in 1..Len(columns) } :
          BrandOverride(f, c)
    \/ RejectNoBrand
    \/ CleanBrandColumns
    \/ RejectNoValue
    \/ Concentration

SpecBrand == InitBrand /\ [][NextBrand]_vars

\* ------------------------------------------------------------------------
\* Claims about render_brand_dashboard (SpecBrand)
\* ------------------------------------------------------------------------
\* 0 <= v <= 1
InUnitInterval(v) ==
    \/ v.k = "fin" /\ v.m = 0
    \/ v.k = "ratio" /\ 0 <= v.num /\ v.num <= v.den

\* C20: the CR5 shown for a brand table lies in [0, 1], and is 0 when the
\* total of the value column is 0.
C20_CR5WellFormed ==
    (pc = "done" /\ "cr5" \in DOMAIN kpi) =>
        /\ InUnitInterval(kpi.cr5)
        /\ NumEq(Total(kpi.val_col), Zero) => NumEq(kpi.cr5, Zero)

\* ------------------------------------------------------------------------
\* SpecBatch: the loop over the sheets of an upload
\* ------------------------------------------------------------------------
RECURSIVE JoinNames(_)
\* " ".join(cols)
JoinNames(cols) ==
    IF cols = <<>> THEN <<>>
    ELSE IF Len(cols) = 1 THEN cols[1]
    ELSE cols[1] \o <<" ">> \o JoinNames(Tail(cols))

detect_sheet_mode(cols) ==
    LET col_str == JoinNames([i \in 1..Len(cols) |-> Lower(cols[i])])
        has(k) == Contains(col_str, k)
        has_asin == has(<<"a", "s", "i", "n">>) \/ has(<<"s", "k", "u">>)
        has_title == has(<<"t", "i", "t", "l", "e">>) \/ has(<<"u6807", "u9898">>) \/ has(<<"n", "a", "m", "e">>) \/ has(<<"u5546", "u54c1">>)
        has_seller == has(<<"s", "e", "l", "l", "e", "r">>) \/ has(<<"u5356", "u5bb6">>)
        has_brand == has(<<"b", "r", "a", "n", "d">>) \/ has(<<"u54c1", "u724c">>)
        has_share == has(<<"s", "h", "a", "r", "e">>) \/ has(<<"u4efd", "u989d">>)
        has_price_or_sales == has(<<"p", "r", "i", "c", "e">>) \/ has(<<"u4ef7", "u683c">>) \/ has(<<"s", "a", "l", "e", "s">>) \/ has(<<"u9500", "u91cf">>)
    IN  IF (has_asin \/ has_title) /\ has_price_or_sales THEN "PRODUCT"
        ELSE IF has_seller /\ ~has_asin THEN "SELLER"
        ELSE IF has_brand /\ has_share THEN "BRAND"
        ELSE "GENERIC"

\* the headers of the sheets of an upload
SheetPool ==
    { <<ColTitle, ColPrice>>,
      <<ColSKU, ColPrice, ColUnitsSold>>,
      <<ColBrand, ColShare>>,
      <<ColTitle, ColRating>>,
      <<<<"S", "e", "l", "l", "e", "r">>, ColUnitsSold>>,
      <<ColBrand>> }

\* what the dashboard of the mode does with its required field, the user
\* having left its selectbox alone (Pending) or set it to the entry `choice`
required_check(mode, cols, choice) ==
    LET inferred == IF mode = "PRODUCT" THEN find_col(cols, Keywords("title"))
                    ELSE find_col(cols, BrandKeywords("brand"))
        mapped == IF choice = Pending THEN inferred ELSE choice
    IN  IF mode \in {"PRODUCT", "BRAND"} /\ mapped = None THEN "rejected" ELSE "passed"

InitBatch ==
    /\ sheets \in UNION { [1..n -> SheetPool] : n \in 0..MaxSheets }
    /\ log = <<>>
    /\ NoNumeric
    /\ field = None
    /\ selected = Pending
    /\ NoProduct
    /\ NoRow
    /\ pc = IF sheets = <<>> THEN "end" ELSE "loop"

\* a loop in which a rejected sheet ends the run
SheetStopOnReject(choice) ==
    LET i == Len(log) + 1
        mode == detect_sheet_mode(sheets[i])
        outcome == required_check(mode, sheets[i], choice)
    IN  /\ pc = "loop"
        /\ choice \in {Pending, None} \cup { sheets[i][j] : j \in 1..Len(sheets[i]) }
        /\ log' = Append(log, [sheet |-> i, mode |-> mode, outcome |-> outcome])
        /\ pc' = IF i = Len(sheets) \/ outcome = "rejected" THEN "end" ELSE "loop"
        /\ UNCHANGED <<numVars, columns, colVars, prodVars, kpi, rowVars, sheets>>

\* lines 941-955: one pass of the loop body; a dashboard that rejects its
\* table returns, and the loop goes on
Sheet(choice) ==
    LET i == Len(log) + 1
        mode == detect_sheet_mode(sheets[i])
    IN  /\ pc = "loop"
        /\ choice \in {Pending, None} \cup { sheets[i][j] : j \in 1..Len(sheets[i]) }
        /\ log' = Append(log, [sheet |-> i, mode |-> mode,
                               outcome |-> required_check(mode, sheets[i], choice)])
        /\ pc' = IF i = Len(sheets) THEN "end" ELSE "loop"
        /\ UNCHANGED <<numVars, columns, colVars, prodVars, kpi, rowVars, sheets>>

NextBatch == \E choice \in {Pending, None} \cup UNION { { h[j] : j \in 1..Len(h) } : h \in SheetPool } : Sheet(choice)

SpecBatch == InitBatch /\ [][NextBatch]_vars

\* ------------------------------------------------------------------------
\* Claims about the loop over the sheets (SpecBatch)
\* ------------------------------------------------------------------------
\* C13: the sheets are classified and handled once each, in order, and the
\* run ends only after the last one, also when a sheet was rejected for a
\* missing required field.
C13_RejectionContained ==
    /\ Len(log) <= Len(sheets)
    /\ \A k \in 1..Len(log) :
          /\ log[k].sheet = k
          /\ log[k].mode = detect_sheet_mode(sheets[k])
    /\ pc = "end" <=> Len(log) = Len(sheets)

\* C13: the run ended with a rejected sheet followed by a sheet that passed
C13_Witness ==
    /\ pc = "end"
    /\ \E k \in 1..(Len(log) - 1) :
          /\ log[k].outcome = "rejected"
          /\ log[k + 1].outcome = "passed"
          /\ log[k + 1].mode \in {"PRODUCT", "BRAND"}

\* the lowercased column names hold one of the words
NamesHold(cols, words) ==
    \E w \in words : Contains(JoinNames([i \in 1..Len(cols) |-> Lower(cols[i])]), w)

\* an ASIN/SKU-like or title-like name together with a price, sales or rating name
ProductLike(cols) ==
    /\ NamesHold(cols, {<<"a", "s", "i", "n">>, <<"s", "k", "u">>, <<"t", "i", "t", "l", "e">>, <<"n", "a", "m", "e">>})
    /\ NamesHold(cols, {<<"p", "r", "i", "c", "e">>, <<"s", "a", "l", "e", "s">>, <<"r", "a", "t", "i", "n", "g">>})

\* C21: every sheet handled gets one of the four modes, and gets PRODUCT when
\* its columns hold an ASIN/SKU-like or title-like name together with a
\* price, sales or rating name.
C21_ProductWithTransactionField ==
    \A k \in 1..Len(log) :
        /\ log[k].mode \in {"PRODUCT", "SELLER", "BRAND", "GENERIC"}
        /\ ProductLike(sheets[k]) => log[k].mode = "PRODUCT"

====
